---- MODULE Spec2Model ----
(***************************************************************************)
(* KiroProvider (src/kiro/provider.rs): the request dispatcher that couples *)
(* the credential pool of MultiTokenManager to HTTP attempts.               *)
(*                                                                         *)
(* One call of call_api / call_api_stream / call_mcp is modelled as a      *)
(* process whose position (pc) is one of its suspension points:            *)
(*   "idle"      not yet called                                            *)
(*   "acquire"   awaiting token_manager.acquire_context()                  *)
(*   "send"      awaiting client.post(..).send()                           *)
(*   "read_body" awaiting response.text()                                  *)
(*   "sleep"     awaiting sleep(retry_delay(attempt))                      *)
(*   "done"      returned (result holds Ok(response) or Err(error))        *)
(*   "cancelled" dropped by the caller while suspended (CancelSpec only)   *)
(* The code between two suspension points is one atomic action.            *)
(*                                                                         *)
(* Spec       one call, from entry to return                               *)
(* CancelSpec the same, where the caller may cancel the suspended call     *)
(* FairSpec   the same, where every suspension eventually completes        *)
(* PureSpec   is_monthly_request_limit, retry_delay and the handling of    *)
(*            one response, each applied once to one input                 *)
(***************************************************************************)
EXTENDS Integers, Sequences, FiniteSets, TLC

\* ---------------------------------------------------------------- bounds
\* Largest credential pool (total_count) explored.
MaxCreds == 5

\* Largest number of credentials that are not disabled when the call starts.
MaxLive == 2

\* Failures after which the token manager disables a credential
\* ("an implementation-defined threshold").
FailureThreshold == 2

\* ------------------------------------------------------ program constants
MAX_RETRIES_PER_CREDENTIAL == 3

MAX_TOTAL_RETRIES == 9

\* Credential health, held by the token manager: n >= 0 is Healthy (0) or
\* Failing(n); the two negative values are the disabled states.
DisabledUnhealthy == -1

DisabledQuotaExhausted == -2

\* HTTP statuses the upstream may answer with (one or more per class of the
\* dispatcher's if-chain, and the boundaries of the ranges it tests).
Statuses == {200, 302, 400, 401, 402, 403, 404, 408, 429, 503}

\* A transport error of client.post(..).send(): no status line was received.
TransportError == 0

VARIABLES
    total,          \* token manager: number of credentials
    health,         \* token manager: health[id] for id \in 1..total
    pc,             \* the call's suspension point
    api_type,       \* "" before the call; "api", "stream" or "mcp"
    max_retries,    \* computed once on entry
    attempt,        \* loop variable of `for attempt in 0..max_retries`
    last_error,     \* Option<anyhow::Error>
    ctx_id,         \* ctx.id of the CallContext held by the attempt (0: none)
    status,         \* response.status() of the attempt (0: none)
    result,         \* the value returned by the call
    trace,          \* operations performed by the current (or just ended) attempt
    posts,          \* HTTP POSTs sent by the call
    sleeps,         \* backoff sleeps started by the call
    acquires,       \* acquire_context calls made by the call
    reports,        \* report_* operations issued by the call, per operation
    health0,        \* health when the call started
    attempt_health, \* health when the current attempt started
    only_transient, \* every upstream outcome of the call so far was 408/429/5xx
    incomplete,     \* the credentials machine-id derivation yields no value for
    fn,             \* the associated function last applied on its own ("": none)
    input,          \* its argument
    output          \* what it computed

\* The variables of a call, and those of the associated functions.
call == <<total, health, pc, api_type, max_retries, attempt, last_error, ctx_id,
          status, result, trace, posts, sleeps, acquires, reports, health0,
          attempt_health, only_transient, incomplete>>

pure == <<fn, input, output>>

vars == <<call, pure>>

\* ---------------------------------------------------------------- helpers
Min(a, b) == IF a < b THEN a ELSE b

\* reqwest::StatusCode predicates
is_success(st) == st >= 200 /\ st <= 299

is_client_error(st) == st >= 400 /\ st <= 499

is_server_error(st) == st >= 500 /\ st <= 599

\* anyhow::Error values, told apart by what their message is built from.
Error(kind, label, st) == [kind |-> kind, label |-> label, status |-> st]

NoError == Error("none", "", 0)

NoResult == [ok |-> FALSE, status |-> 0, err |-> NoError]

Ok(st) == [ok |-> TRUE, status |-> st, err |-> NoError]

Err(e) == [ok |-> FALSE, status |-> 0, err |-> e]

\* The whole state as a record, so that the handlers are functions of it.
St == [health |-> health, pc |-> pc, api_type |-> api_type, max_retries |-> max_retries,
       attempt |-> attempt, last_error |-> last_error, ctx_id |-> ctx_id,
       status |-> status, result |-> result, trace |-> trace, posts |-> posts,
       sleeps |-> sleeps, acquires |-> acquires, reports |-> reports]

Set(s) ==
    /\ health' = s.health
    /\ pc' = s.pc
    /\ api_type' = s.api_type
    /\ max_retries' = s.max_retries
    /\ attempt' = s.attempt
    /\ last_error' = s.last_error
    /\ ctx_id' = s.ctx_id
    /\ status' = s.status
    /\ result' = s.result
    /\ trace' = s.trace
    /\ posts' = s.posts
    /\ sleeps' = s.sleeps
    /\ acquires' = s.acquires
    /\ reports' = s.reports

\* Record one operation of the attempt.
Log(s, op, id, val) ==
    [s EXCEPT !.trace = Append(@, [op |-> op, id |-> id, val |-> val])]

Count(tr, ops) == Cardinality({i \in DOMAIN tr : tr[i].op \in ops})

ReportOps == {"report_success", "report_failure", "report_quota_exhausted"}

\* ------------------------------------------------- response bodies (JSON)
\* A body is a sequence of lexical tokens; a token is written as it is spelled
\* in the body text.  String tokens carry their quotes.
MARKER == "MONTHLY_REQUEST_COUNT"

StrTokens == {"\"reason\"", "\"error\"", "\"message\"", "\"MONTHLY_REQUEST_COUNT\"",
              "\"MONTHLY_REQUEST\\u005fCOUNT\"", "\"DAILY_REQUEST_COUNT\""}

\* The string a JSON string token denotes (quotes removed, escapes resolved).
Decode(tok) ==
    CASE tok = "\"reason\"" -> "reason"
      [] tok = "\"error\"" -> "error"
      [] tok = "\"message\"" -> "message"
      [] tok = "\"MONTHLY_REQUEST_COUNT\"" -> MARKER
      [] tok = "\"MONTHLY_REQUEST\\u005fCOUNT\"" -> MARKER
      [] tok = "\"DAILY_REQUEST_COUNT\"" -> "DAILY_REQUEST_COUNT"
      [] OTHER -> ""

\* Whether the spelling of a token contains the text MONTHLY_REQUEST_COUNT.
Spells(tok) == tok \in {"MONTHLY_REQUEST_COUNT", "\"MONTHLY_REQUEST_COUNT\""}

\* str::contains("MONTHLY_REQUEST_COUNT")
contains(body) == \E i \in DOMAIN body : Spells(body[i])

JStr(x) == [t |-> "string", s |-> x, m |-> <<>>]

JObj(m) == [t |-> "object", s |-> "", m |-> m]

ParseFail == [ok |-> FALSE, val |-> JStr(""), next |-> 0]

Put(m, k, v) == [x \in DOMAIN m \cup {k} |-> IF x = k THEN v ELSE m[x]]

RECURSIVE ParseValue(_, _), ParseMembers(_, _, _)
\* serde_json: value ::= string | object
ParseValue(b, i) ==
    IF i > Len(b) THEN ParseFail
    ELSE IF b[i] \in StrTokens THEN [ok |-> TRUE, val |-> JStr(Decode(b[i])), next |-> i + 1]
    ELSE IF b[i] = "{" THEN
        IF i + 1 <= Len(b) /\ b[i + 1] = "}"
        THEN [ok |-> TRUE, val |-> JObj(<<>>), next |-> i + 2]
        ELSE ParseMembers(b, i + 1, <<>>)
    ELSE ParseFail

\* serde_json: members ::= string ":" value ( "," members | "}" ); a repeated
\* key replaces the earlier entry.
ParseMembers(b, i, m) ==
    IF i + 1 > Len(b) \/ b[i] \notin StrTokens \/ b[i + 1] # ":" THEN ParseFail
    ELSE LET r == ParseValue(b, i + 2)
             m2 == Put(m, Decode(b[i]), r.val)
         IN IF ~r.ok \/ r.next > Len(b) THEN ParseFail
            ELSE IF b[r.next] = "}" THEN [ok |-> TRUE, val |-> JObj(m2), next |-> r.next + 1]
            ELSE IF b[r.next] = "," THEN ParseMembers(b, r.next + 1, m2)
            ELSE ParseFail

\* serde_json::from_str::<Value>(body): the whole text must be one value.
from_str(body) ==
    LET r == ParseValue(body, 1)
    IN IF r.ok /\ r.next = Len(body) + 1 THEN r ELSE ParseFail

\* Value::get(key).and_then(as_str).is_some_and(|v| v == MARKER)
FieldIsMarker(v, key) ==
    /\ v.t = "object"
    /\ key \in DOMAIN v.m
    /\ v.m[key].t = "string"
    /\ v.m[key].s = MARKER

\* Mutant: the nested field error.reason is not looked at.
is_monthly_request_limit_TopLevelOnly(body) ==
    IF contains(body) THEN TRUE
    ELSE LET r == from_str(body)
         IN IF ~r.ok THEN FALSE
            ELSE FieldIsMarker(r.val, "reason")

is_monthly_request_limit(body) ==
    IF contains(body) THEN TRUE
    ELSE LET r == from_str(body)
         IN IF ~r.ok THEN FALSE
            ELSE IF FieldIsMarker(r.val, "reason") THEN TRUE
            ELSE /\ r.val.t = "object"
                 /\ "error" \in DOMAIN r.val.m
                 /\ FieldIsMarker(r.val.m["error"], "reason")

\* Response bodies the upstream may send.
Bodies ==
    { <<>>,
      <<"limit reached">>,
      <<"MONTHLY_REQUEST_COUNT">>,
      <<"{", "\"reason\"", ":", "\"MONTHLY_REQUEST\\u005fCOUNT\"", "}">>,
      <<"{", "\"reason\"", ":", "\"DAILY_REQUEST_COUNT\"", "}">>,
      <<"{", "\"error\"", ":", "{", "\"reason\"", ":", "\"MONTHLY_REQUEST\\u005fCOUNT\"", "}", "}">>,
      <<"{", "\"reason\"", ":", "\"MONTHLY_REQUEST\\u005fCOUNT\"", "}", "limit reached">> }

\* ------------------------------------------------------------ retry_delay
BASE_MS == 200

MAX_MS == 2000

\* The largest integer of the model's arithmetic.  u64::MAX lies above it: a
\* u64 operation whose exact result stays below IntMax does not saturate.
IntMax == 2147483647

Max(a, b) == IF a > b THEN a ELSE b

\* u64::saturating_mul / saturating_pow / saturating_add
saturating_mul(x, y) == IF y # 0 /\ x > IntMax \div y THEN IntMax ELSE x * y

RECURSIVE saturating_pow(_, _)
saturating_pow(b, e) == IF e = 0 THEN 1 ELSE saturating_mul(b, saturating_pow(b, e - 1))

saturating_add(x, y) == IF x > IntMax - y THEN IntMax ELSE x + y

\* let exp = BASE_MS.saturating_mul(2u64.saturating_pow(attempt.min(6) as u32))
exp(a) == saturating_mul(BASE_MS, saturating_pow(2, Min(a, 6)))

\* Mutant: the ceiling MAX_MS is not applied.
backoff_NoCeiling(a) == exp(a)

\* let backoff = exp.min(MAX_MS)
backoff(a) == Min(exp(a), MAX_MS)

\* let jitter_max = (backoff / 4).max(1)
jitter_max(a) == Max(backoff(a) \div 4, 1)

\* Duration::from_millis(backoff.saturating_add(jitter)), in milliseconds;
\* jitter is the value fastrand::u64(0..=jitter_max) drew.
retry_delay(a, jitter) == saturating_add(backoff(a), jitter)

\* ------------------------------------------------ MultiTokenManager (pool)
total_count == total

\* The credentials acquire_context may select: those not disabled.
Usable(h) == {i \in DOMAIN h : h[i] >= 0}

\* report_* return value: at least one non-disabled credential remains.
has_available(h) == Usable(h) # {}

report_success(h, id) == [h EXCEPT ![id] = 0]

report_failure(h, id) ==
    [h EXCEPT ![id] = IF @ < 0 THEN @
                      ELSE IF @ + 1 >= FailureThreshold THEN DisabledUnhealthy
                      ELSE @ + 1]

report_quota_exhausted(h, id) == [h EXCEPT ![id] = DisabledQuotaExhausted]

\* machine_id::generate_from_credentials(credentials, config): a pure function
\* of the credential, None (FALSE) for the structurally incomplete ones.
generate_from_credentials(id) == id \notin incomplete

\* The endpoint a POST goes to, with the header set built for it.
PrimaryEndpoint == 1

McpEndpoint == 2

\* ------------------------------------------ call_api_with_retry (primary)
\* Loop head of `for attempt in 0..max_retries`, and the code after the loop.
ApiLoop(s) ==
    IF s.attempt < s.max_retries
    THEN [s EXCEPT !.pc = "acquire", !.acquires = @ + 1]
    ELSE [s EXCEPT !.pc = "done",
                   !.result = Err(IF s.last_error.kind = "none"
                                  THEN Error("max_retries", s.api_type, s.max_retries)
                                  ELSE s.last_error)]

\* Mutant: the next iteration does not advance the loop variable.
ApiContinue_NoAdvance(s) == ApiLoop(s)

\* `continue`, or falling off the end of the loop body.
ApiContinue(s) == ApiLoop([s EXCEPT !.attempt = @ + 1])

\* Mutant: the global hard cap is not applied.
ApiEnter_NoHardCap(s, is_stream, n) ==
    ApiLoop([s EXCEPT !.max_retries = n * MAX_RETRIES_PER_CREDENTIAL,
                      !.last_error = NoError,
                      !.api_type = IF is_stream THEN "stream" ELSE "api",
                      !.attempt = 0])

\* Entry: the cap is computed from total_count(), once.
ApiEnter(s, is_stream, n) ==
    ApiLoop([s EXCEPT !.max_retries = Min(n * MAX_RETRIES_PER_CREDENTIAL, MAX_TOTAL_RETRIES),
                      !.last_error = NoError,
                      !.api_type = IF is_stream THEN "stream" ELSE "api",
                      !.attempt = 0])

\* Mutant: the backoff also follows the last permitted attempt.
ApiBackoff_AfterLast(s) ==
    IF s.attempt < s.max_retries
    THEN [Log(s, "sleep", 0, s.attempt) EXCEPT !.sleeps = @ + 1, !.pc = "sleep"]
    ELSE ApiContinue(s)

\* `if attempt + 1 < max_retries { sleep(retry_delay(attempt)).await } continue`
ApiBackoff(s) ==
    IF s.attempt + 1 < s.max_retries
    THEN [Log(s, "sleep", 0, s.attempt) EXCEPT !.sleeps = @ + 1, !.pc = "sleep"]
    ELSE ApiContinue(s)

\* The sleep is over: `continue`.
ApiWake(s) == ApiContinue(s)

\* Mutant: the context of the previous attempt is kept instead of the new lease.
ApiAcquire_KeepsContext(s, acq, mid) ==
    LET id == IF acq # 0 /\ s.ctx_id # 0 THEN s.ctx_id ELSE acq
        s1 == [s EXCEPT !.trace = <<[op |-> "acquire_context", id |-> id, val |-> s.attempt]>>,
                        !.ctx_id = id, !.status = 0]
    IN IF id = 0
       THEN ApiContinue([s1 EXCEPT !.last_error = Error("acquire", "", 0)])
       ELSE IF ~mid
       THEN ApiContinue([Log(s1, "build_headers", id, 0)
                            EXCEPT !.last_error = Error("machine_id", "", 0)])
       ELSE [Log(Log(s1, "build_headers", id, 1), "post", id, PrimaryEndpoint)
                EXCEPT !.posts = @ + 1, !.pc = "send"]

\* Mutant: the streaming entry point posts to another endpoint.
ApiAcquire_StreamOtherEndpoint(s, acq, mid) ==
    LET s1 == [s EXCEPT !.trace = <<[op |-> "acquire_context", id |-> acq, val |-> s.attempt]>>,
                        !.ctx_id = acq, !.status = 0]
    IN IF acq = 0
       THEN ApiContinue([s1 EXCEPT !.last_error = Error("acquire", "", 0)])
       ELSE IF ~mid
       THEN ApiContinue([Log(s1, "build_headers", acq, 0)
                            EXCEPT !.last_error = Error("machine_id", "", 0)])
       ELSE [Log(Log(s1, "build_headers", acq, 1), "post", acq,
                 IF s.api_type = "stream" THEN McpEndpoint ELSE PrimaryEndpoint)
                EXCEPT !.posts = @ + 1, !.pc = "send"]

\* Mutant: a header-build error waits for the backoff like a transient error.
ApiAcquire_HeaderErrorBacksOff(s, acq, mid) ==
    LET s1 == [s EXCEPT !.trace = <<[op |-> "acquire_context", id |-> acq, val |-> s.attempt]>>,
                        !.ctx_id = acq, !.status = 0]
    IN IF acq = 0
       THEN ApiContinue([s1 EXCEPT !.last_error = Error("acquire", "", 0)])
       ELSE IF ~mid
       THEN ApiBackoff([Log(s1, "build_headers", acq, 0)
                           EXCEPT !.last_error = Error("machine_id", "", 0)])
       ELSE [Log(Log(s1, "build_headers", acq, 1), "post", acq, PrimaryEndpoint)
                EXCEPT !.posts = @ + 1, !.pc = "send"]

\* Mutant: an acquire error is not recorded as last_error.
ApiAcquire_AcquireErrorNotRecorded(s, acq, mid) ==
    LET s1 == [s EXCEPT !.trace = <<[op |-> "acquire_context", id |-> acq, val |-> s.attempt]>>,
                        !.ctx_id = acq, !.status = 0]
    IN IF acq = 0
       THEN ApiContinue(s1)
       ELSE IF ~mid
       THEN ApiContinue([Log(s1, "build_headers", acq, 0)
                            EXCEPT !.last_error = Error("machine_id", "", 0)])
       ELSE [Log(Log(s1, "build_headers", acq, 1), "post", acq, PrimaryEndpoint)
                EXCEPT !.posts = @ + 1, !.pc = "send"]

\* acquire_context() has returned acq (0: Err); then build_headers and the POST.
ApiAcquire(s, acq, mid) ==
    LET s1 == [s EXCEPT !.trace = <<[op |-> "acquire_context", id |-> acq, val |-> s.attempt]>>,
                        !.ctx_id = acq, !.status = 0]
    IN IF acq = 0
       THEN ApiContinue([s1 EXCEPT !.last_error = Error("acquire", "", 0)])
       ELSE IF ~mid
       THEN ApiContinue([Log(s1, "build_headers", acq, 0)
                            EXCEPT !.last_error = Error("machine_id", "", 0)])
       ELSE [Log(Log(s1, "build_headers", acq, 1), "post", acq, PrimaryEndpoint)
                EXCEPT !.posts = @ + 1, !.pc = "send"]

\* Mutant: the response is returned without report_success.
ApiOnSuccess_NoReport(s) == [s EXCEPT !.pc = "done", !.result = Ok(s.status)]

\* status.is_success(): report and return the response.
ApiOnSuccess(s) ==
    [Log(s, "report_success", s.ctx_id, 1)
        EXCEPT !.health = report_success(@, s.ctx_id),
               !.reports.report_success = @ + 1,
               !.pc = "done", !.result = Ok(s.status)]

\* Mutant: a transport error is counted against the credential.
ApiSend_NetworkCountsFailure(s, outcome) ==
    IF outcome = TransportError
    THEN LET h == report_failure(s.health, s.ctx_id)
         IN ApiBackoff([Log(s, "send_error", s.ctx_id, 0)
                           EXCEPT !.health = h, !.last_error = Error("network", "", 0)])
    ELSE LET s1 == [Log(s, "response", s.ctx_id, outcome) EXCEPT !.status = outcome]
         IN IF is_success(outcome) THEN ApiOnSuccess(s1)
            ELSE [s1 EXCEPT !.pc = "read_body"]

\* Mutant: a transport error is recorded only when no error was recorded yet.
ApiSend_KeepsEarlierError(s, outcome) ==
    IF outcome = TransportError
    THEN ApiBackoff([Log(s, "send_error", s.ctx_id, 0)
                        EXCEPT !.last_error = IF @.kind = "none"
                                              THEN Error("network", "", 0) ELSE @])
    ELSE LET s1 == [Log(s, "response", s.ctx_id, outcome) EXCEPT !.status = outcome]
         IN IF is_success(outcome) THEN ApiOnSuccess(s1)
            ELSE [s1 EXCEPT !.pc = "read_body"]

\* send() has returned: a transport error, or a response with a status.
ApiSend(s, outcome) ==
    IF outcome = TransportError
    THEN ApiBackoff([Log(s, "send_error", s.ctx_id, 0)
                        EXCEPT !.last_error = Error("network", "", 0)])
    ELSE LET s1 == [Log(s, "response", s.ctx_id, outcome) EXCEPT !.status = outcome]
         IN IF is_success(outcome) THEN ApiOnSuccess(s1)
            ELSE [s1 EXCEPT !.pc = "read_body"]

\* anyhow::bail!(..)
ApiBail(s, kind) ==
    [s EXCEPT !.pc = "done", !.result = Err(Error(kind, s.api_type, s.status))]

\* Mutant: the return value of report_quota_exhausted is ignored.
ApiOnQuota_IgnoresReturn(s) ==
    LET h == report_quota_exhausted(s.health, s.ctx_id)
        s1 == [Log(s, "report_quota_exhausted", s.ctx_id, IF has_available(h) THEN 1 ELSE 0)
                  EXCEPT !.health = h, !.reports.report_quota_exhausted = @ + 1]
    IN ApiContinue([s1 EXCEPT !.last_error = Error("status", s.api_type, s.status)])

\* 402 with the monthly-quota marker
ApiOnQuota(s) ==
    LET h == report_quota_exhausted(s.health, s.ctx_id)
        s1 == [Log(s, "report_quota_exhausted", s.ctx_id, IF has_available(h) THEN 1 ELSE 0)
                  EXCEPT !.health = h, !.reports.report_quota_exhausted = @ + 1]
    IN IF ~has_available(h) THEN ApiBail(s1, "exhausted")
       ELSE ApiContinue([s1 EXCEPT !.last_error = Error("status", s.api_type, s.status)])

\* Mutant: the failure is reported twice.
ApiOnAuth_ReportsTwice(s) ==
    LET h == report_failure(report_failure(s.health, s.ctx_id), s.ctx_id)
        r == IF has_available(h) THEN 1 ELSE 0
        s1 == [Log(Log(s, "report_failure", s.ctx_id, r), "report_failure", s.ctx_id, r)
                  EXCEPT !.health = h, !.reports.report_failure = @ + 2]
    IN IF ~has_available(h) THEN ApiBail(s1, "exhausted")
       ELSE ApiContinue([s1 EXCEPT !.last_error = Error("status", s.api_type, s.status)])

\* Mutant: the failover waits for the backoff like a transient retry.
ApiOnAuth_WithBackoff(s) ==
    LET h == report_failure(s.health, s.ctx_id)
        s1 == [Log(s, "report_failure", s.ctx_id, IF has_available(h) THEN 1 ELSE 0)
                  EXCEPT !.health = h, !.reports.report_failure = @ + 1]
    IN IF ~has_available(h) THEN ApiBail(s1, "exhausted")
       ELSE ApiBackoff([s1 EXCEPT !.last_error = Error("status", s.api_type, s.status)])

\* 401 / 403
ApiOnAuth(s) ==
    LET h == report_failure(s.health, s.ctx_id)
        s1 == [Log(s, "report_failure", s.ctx_id, IF has_available(h) THEN 1 ELSE 0)
                  EXCEPT !.health = h, !.reports.report_failure = @ + 1]
    IN IF ~has_available(h) THEN ApiBail(s1, "exhausted")
       ELSE ApiContinue([s1 EXCEPT !.last_error = Error("status", s.api_type, s.status)])

\* Mutant: a transient error is counted against the credential.
ApiOnRetryable_CountsFailure(s) ==
    LET h == report_failure(s.health, s.ctx_id)
    IN ApiBackoff([Log(s, "report_failure", s.ctx_id, IF has_available(h) THEN 1 ELSE 0)
                      EXCEPT !.health = h, !.reports.report_failure = @ + 1,
                             !.last_error = Error("status", s.api_type, s.status)])

\* 408 / 429 / 5xx, and the fall-through at the end of the loop body
ApiOnRetryable(s) ==
    ApiBackoff([s EXCEPT !.last_error = Error("status", s.api_type, s.status)])

\* Mutant: every 402 counts as quota exhaustion, marker or not.
ApiBody_Any402Quota(s, body) ==
    LET marker == is_monthly_request_limit(body)
        s1 == Log(s, "read_body", s.ctx_id, IF marker THEN 1 ELSE 0)
    IN IF s.status = 402 THEN ApiOnQuota(s1)
       ELSE IF s.status = 400 THEN ApiBail(s1, "status")
       ELSE IF s.status \in {401, 403} THEN ApiOnAuth(s1)
       ELSE IF s.status \in {408, 429} \/ is_server_error(s.status) THEN ApiOnRetryable(s1)
       ELSE IF is_client_error(s.status) THEN ApiBail(s1, "status")
       ELSE ApiOnRetryable(s1)

\* Mutant: the other 4xx statuses fall through to the retry at the end.
ApiBody_Other4xxRetried(s, body) ==
    LET marker == is_monthly_request_limit(body)
        s1 == Log(s, "read_body", s.ctx_id, IF marker THEN 1 ELSE 0)
    IN IF s.status = 402 /\ marker THEN ApiOnQuota(s1)
       ELSE IF s.status = 400 THEN ApiBail(s1, "status")
       ELSE IF s.status \in {401, 403} THEN ApiOnAuth(s1)
       ELSE IF s.status \in {408, 429} \/ is_server_error(s.status) THEN ApiOnRetryable(s1)
       ELSE ApiOnRetryable(s1)

\* Mutant: the client-error test comes before the transient statuses.
ApiBody_ClientErrorFirst(s, body) ==
    LET marker == is_monthly_request_limit(body)
        s1 == Log(s, "read_body", s.ctx_id, IF marker THEN 1 ELSE 0)
    IN IF s.status = 402 /\ marker THEN ApiOnQuota(s1)
       ELSE IF s.status = 400 THEN ApiBail(s1, "status")
       ELSE IF s.status \in {401, 403} THEN ApiOnAuth(s1)
       ELSE IF is_client_error(s.status) THEN ApiBail(s1, "status")
       ELSE IF s.status \in {408, 429} \/ is_server_error(s.status) THEN ApiOnRetryable(s1)
       ELSE ApiOnRetryable(s1)

\* response.text() has returned the body of a non-success response.
ApiBody(s, body) ==
    LET marker == is_monthly_request_limit(body)
        s1 == Log(s, "read_body", s.ctx_id, IF marker THEN 1 ELSE 0)
    IN IF s.status = 402 /\ marker THEN ApiOnQuota(s1)
       ELSE IF s.status = 400 THEN ApiBail(s1, "status")
       ELSE IF s.status \in {401, 403} THEN ApiOnAuth(s1)
       ELSE IF s.status \in {408, 429} \/ is_server_error(s.status) THEN ApiOnRetryable(s1)
       ELSE IF is_client_error(s.status) THEN ApiBail(s1, "status")
       ELSE ApiOnRetryable(s1)

\* ------------------------------------------------ call_mcp_with_retry (MCP)
McpLoop(s) ==
    IF s.attempt < s.max_retries
    THEN [s EXCEPT !.pc = "acquire", !.acquires = @ + 1]
    ELSE [s EXCEPT !.pc = "done",
                   !.result = Err(IF s.last_error.kind = "none"
                                  THEN Error("max_retries", "mcp", s.max_retries)
                                  ELSE s.last_error)]

McpContinue(s) == McpLoop([s EXCEPT !.attempt = @ + 1])

McpEnter(s, n) ==
    McpLoop([s EXCEPT !.max_retries = Min(n * MAX_RETRIES_PER_CREDENTIAL, MAX_TOTAL_RETRIES),
                      !.last_error = NoError,
                      !.api_type = "mcp",
                      !.attempt = 0])

McpBackoff(s) ==
    IF s.attempt + 1 < s.max_retries
    THEN [Log(s, "sleep", 0, s.attempt) EXCEPT !.sleeps = @ + 1, !.pc = "sleep"]
    ELSE McpContinue(s)

McpWake(s) == McpContinue(s)

McpAcquire(s, acq, mid) ==
    LET s1 == [s EXCEPT !.trace = <<[op |-> "acquire_context", id |-> acq, val |-> s.attempt]>>,
                        !.ctx_id = acq, !.status = 0]
    IN IF acq = 0
       THEN McpContinue([s1 EXCEPT !.last_error = Error("acquire", "", 0)])
       ELSE IF ~mid
       THEN McpContinue([Log(s1, "build_headers", acq, 0)
                            EXCEPT !.last_error = Error("machine_id", "", 0)])
       ELSE [Log(Log(s1, "build_headers", acq, 1), "post", acq, McpEndpoint)
                EXCEPT !.posts = @ + 1, !.pc = "send"]

McpOnSuccess(s) ==
    [Log(s, "report_success", s.ctx_id, 1)
        EXCEPT !.health = report_success(@, s.ctx_id),
               !.reports.report_success = @ + 1,
               !.pc = "done", !.result = Ok(s.status)]

McpSend(s, outcome) ==
    IF outcome = TransportError
    THEN McpBackoff([Log(s, "send_error", s.ctx_id, 0)
                        EXCEPT !.last_error = Error("network", "", 0)])
    ELSE LET s1 == [Log(s, "response", s.ctx_id, outcome) EXCEPT !.status = outcome]
         IN IF is_success(outcome) THEN McpOnSuccess(s1)
            ELSE [s1 EXCEPT !.pc = "read_body"]

McpBail(s, kind) ==
    [s EXCEPT !.pc = "done", !.result = Err(Error(kind, "mcp", s.status))]

McpOnQuota(s) ==
    LET h == report_quota_exhausted(s.health, s.ctx_id)
        s1 == [Log(s, "report_quota_exhausted", s.ctx_id, IF has_available(h) THEN 1 ELSE 0)
                  EXCEPT !.health = h, !.reports.report_quota_exhausted = @ + 1]
    IN IF ~has_available(h) THEN McpBail(s1, "exhausted")
       ELSE McpContinue([s1 EXCEPT !.last_error = Error("status", "mcp", s.status)])

McpOnAuth(s) ==
    LET h == report_failure(s.health, s.ctx_id)
        s1 == [Log(s, "report_failure", s.ctx_id, IF has_available(h) THEN 1 ELSE 0)
                  EXCEPT !.health = h, !.reports.report_failure = @ + 1]
    IN IF ~has_available(h) THEN McpBail(s1, "exhausted")
       ELSE McpContinue([s1 EXCEPT !.last_error = Error("status", "mcp", s.status)])

McpOnRetryable(s) ==
    McpBackoff([s EXCEPT !.last_error = Error("status", "mcp", s.status)])

\* Mutant: the MCP loop lacks the branch for the other 4xx statuses.
McpBody_NoOtherClient(s, body) ==
    LET marker == is_monthly_request_limit(body)
        s1 == Log(s, "read_body", s.ctx_id, IF marker THEN 1 ELSE 0)
    IN IF s.status = 402 /\ marker THEN McpOnQuota(s1)
       ELSE IF s.status = 400 THEN McpBail(s1, "status")
       ELSE IF s.status \in {401, 403} THEN McpOnAuth(s1)
       ELSE IF s.status \in {408, 429} \/ is_server_error(s.status) THEN McpOnRetryable(s1)
       ELSE McpOnRetryable(s1)

McpBody(s, body) ==
    LET marker == is_monthly_request_limit(body)
        s1 == Log(s, "read_body", s.ctx_id, IF marker THEN 1 ELSE 0)
    IN IF s.status = 402 /\ marker THEN McpOnQuota(s1)
       ELSE IF s.status = 400 THEN McpBail(s1, "status")
       ELSE IF s.status \in {401, 403} THEN McpOnAuth(s1)
       ELSE IF s.status \in {408, 429} \/ is_server_error(s.status) THEN McpOnRetryable(s1)
       ELSE IF is_client_error(s.status) THEN McpBail(s1, "status")
       ELSE McpOnRetryable(s1)

\* ------------------------------------------------------------ the machine
IsMcp == api_type = "mcp"

TransientStatuses == {st \in Statuses : st \in {408, 429} \/ (st >= 500 /\ st <= 599)}

NoReports == [op \in ReportOps |-> 0]

\* Pool sizes explored: the small pools, and one beyond the global cap.
PoolSizes == 0..MaxLive \cup {MaxCreds}

\* attempt_health follows the loop: it is reset when a new iteration begins.
NextAttemptHealth ==
    attempt_health' = IF attempt' # attempt THEN health' ELSE attempt_health

Init ==
    /\ total \in PoolSizes
    /\ \E live \in 0..Min(total, MaxLive) :
          /\ health = [i \in 1..total |-> IF i <= live THEN 0 ELSE DisabledQuotaExhausted]
          /\ incomplete \in {{}} \cup {{i} : i \in 1..Min(live, 1)}
    /\ health0 = health
    /\ attempt_health = health
    /\ pc = "idle"
    /\ api_type = ""
    /\ max_retries = 0
    /\ attempt = 0
    /\ last_error = NoError
    /\ ctx_id = 0
    /\ status = 0
    /\ result = NoResult
    /\ trace = <<>>
    /\ posts = 0
    /\ sleeps = 0
    /\ acquires = 0
    /\ reports = NoReports
    /\ only_transient = TRUE
    /\ fn = ""
    /\ input = 0
    /\ output = 0

\* call_api(body)
CallApi ==
    /\ pc = "idle"
    /\ Set(ApiEnter(St, FALSE, total_count))
    /\ NextAttemptHealth
    /\ UNCHANGED <<total, health0, only_transient, incomplete, pure>>

\* call_api_stream(body)
CallApiStream ==
    /\ pc = "idle"
    /\ Set(ApiEnter(St, TRUE, total_count))
    /\ NextAttemptHealth
    /\ UNCHANGED <<total, health0, only_transient, incomplete, pure>>

\* call_mcp(body)
CallMcp ==
    /\ pc = "idle"
    /\ Set(McpEnter(St, total_count))
    /\ NextAttemptHealth
    /\ UNCHANGED <<total, health0, only_transient, incomplete, pure>>

\* acquire_context() completes: a lease on some non-disabled credential, or an
\* error when there is none.
AcquireStep ==
    /\ pc = "acquire"
    /\ \E acq \in (IF Usable(health) = {} THEN {0} ELSE Usable(health)) :
          LET mid == acq # 0 /\ generate_from_credentials(acq)
          IN /\ Set(IF IsMcp THEN McpAcquire(St, acq, mid) ELSE ApiAcquire(St, acq, mid))
             /\ only_transient' = (only_transient /\ mid)
    /\ NextAttemptHealth
    /\ UNCHANGED <<total, health0, incomplete, pure>>

\* send() completes.
SendStep ==
    /\ pc = "send"
    /\ \E outcome \in {TransportError} \cup Statuses :
          /\ Set(IF IsMcp THEN McpSend(St, outcome) ELSE ApiSend(St, outcome))
          /\ only_transient' = (only_transient /\ outcome \in TransientStatuses)
    /\ NextAttemptHealth
    /\ UNCHANGED <<total, health0, incomplete, pure>>

\* response.text() completes.
BodyStep ==
    /\ pc = "read_body"
    /\ \E body \in Bodies :
          Set(IF IsMcp THEN McpBody(St, body) ELSE ApiBody(St, body))
    /\ NextAttemptHealth
    /\ UNCHANGED <<total, health0, only_transient, incomplete, pure>>

\* sleep(retry_delay(attempt)) completes.
SleepStep ==
    /\ pc = "sleep"
    /\ Set(IF IsMcp THEN McpWake(St) ELSE ApiWake(St))
    /\ NextAttemptHealth
    /\ UNCHANGED <<total, health0, only_transient, incomplete, pure>>

Next ==
    \/ CallApi
    \/ CallApiStream
    \/ CallMcp
    \/ AcquireStep
    \/ SendStep
    \/ BodyStep
    \/ SleepStep

Spec == Init /\ [][Next]_vars

\* --------------------------------------------------------- cancellation
\* The caller drops the future of the call while it is suspended at one of
\* its .await points: no code of the call runs from then on.
Cancel_ReportsFailure ==
    /\ pc \in {"send", "read_body"}
    /\ pc' = "cancelled"
    /\ trace' = Append(trace, [op |-> "report_failure", id |-> ctx_id, val |-> 1])
    /\ health' = report_failure(health, ctx_id)
    /\ reports' = [reports EXCEPT !["report_failure"] = @ + 1]
    /\ UNCHANGED <<total, api_type, max_retries, attempt, last_error, ctx_id, status,
                   result, posts, sleeps, acquires, health0, attempt_health,
                   only_transient, incomplete, pure>>

Cancel ==
    /\ pc \in {"acquire", "send", "read_body", "sleep"}
    /\ pc' = "cancelled"
    /\ trace' = Append(trace, [op |-> "cancelled", id |-> ctx_id, val |-> attempt])
    /\ UNCHANGED <<total, health, api_type, max_retries, attempt, last_error, ctx_id,
                   status, result, posts, sleeps, acquires, reports, health0,
                   attempt_health, only_transient, incomplete, pure>>

CancelNext ==
    \/ Next
    \/ Cancel

CancelSpec == Init /\ [][CancelNext]_vars

\* ------------------------------------------------------------- fairness
\* Every suspension of a call eventually completes: the token manager
\* answers, the HTTP client returns (it has a total request timeout), the
\* body read returns and the timer fires.
Resume ==
    \/ AcquireStep
    \/ SendStep
    \/ BodyStep
    \/ SleepStep

FairSpec == Spec /\ WF_vars(Resume)

\* ------------------------------------- the associated functions, on their own
\* Longest response body (in tokens) is_monthly_request_limit is applied to.
MaxBodyLen == 5

\* Largest attempt index retry_delay is applied to (the loop's own indices
\* end at MAX_TOTAL_RETRIES - 1; beyond 6 the exponent is clamped).
MaxAttemptIndex == 12

\* The tokens the bodies are made of: punctuation, the two keys, and three
\* string values (the marker spelled with an escape, the marker spelled
\* literally, another reason).
BodyTokens == {"{", "}", ":", "\"reason\"", "\"error\"", "\"MONTHLY_REQUEST\\u005fCOUNT\"",
               "\"MONTHLY_REQUEST_COUNT\"", "\"DAILY_REQUEST_COUNT\""}

ShortBodies == UNION {[1..k -> BodyTokens] : k \in 0..MaxBodyLen}

\* The body {"error": b}
Nested(b) == <<"{", "\"error\"", ":">> \o b \o <<"}">>

BodyInputs == ShortBodies \cup {Nested(b) : b \in ShortBodies} \cup Bodies

\* Every status code a response can carry.
AllStatuses == 100..699

\* A call that has not started, on a pool with health h.
Idle(h) ==
    [health |-> h, pc |-> "idle", api_type |-> "", max_retries |-> 0, attempt |-> 0,
     last_error |-> NoError, ctx_id |-> 0, status |-> 0, result |-> NoResult,
     trace |-> <<>>, posts |-> 0, sleeps |-> 0, acquires |-> 0,
     reports |-> [op \in ReportOps |-> 0]]

\* The pools a response is handled in: the reported credential is the only
\* one, one of two, or the only one and one failure short of the threshold.
ProbePools == {<<0>>, <<0, 0>>, <<FailureThreshold - 1>>}

\* A call of the given kind on pool h, waiting for the response to its POST
\* on credential 1, in its first or (last = TRUE) its last permitted attempt.
AwaitingResponse(kind, h, last) ==
    LET s0 == IF kind = "mcp" THEN McpAcquire(McpEnter(Idle(h), Len(h)), 1, TRUE)
              ELSE ApiAcquire(ApiEnter(Idle(h), kind = "stream", Len(h)), 1, TRUE)
    IN IF last THEN [s0 EXCEPT !.attempt = s0.max_retries - 1] ELSE s0

\* What a call does with a response: lines after send() up to the end of the
\* loop body.
Respond(s, st, body) ==
    LET s1 == IF s.api_type = "mcp" THEN McpSend(s, st) ELSE ApiSend(s, st)
    IN IF s1.pc # "read_body" THEN s1
       ELSE IF s.api_type = "mcp" THEN McpBody(s1, body) ELSE ApiBody(s1, body)

\* is_monthly_request_limit(body) for one body.
IsLimitStep ==
    /\ fn = ""
    /\ \E body \in BodyInputs :
          /\ fn' = "is_monthly_request_limit"
          /\ input' = body
          /\ output' = is_monthly_request_limit(body)
    /\ UNCHANGED call

\* retry_delay(attempt) for one attempt index and one draw of the jitter.
RetryDelayStep ==
    /\ fn = ""
    /\ \E a \in 0..MaxAttemptIndex :
          \E jitter \in 0..jitter_max(a) :
             /\ fn' = "retry_delay"
             /\ input' = a
             /\ output' = [exp |-> exp(a), backoff |-> backoff(a),
                           jitter_max |-> jitter_max(a), jitter |-> jitter,
                           millis |-> retry_delay(a, jitter)]
    /\ UNCHANGED call

\* The handling of one response by one call.
RespondStep ==
    /\ fn = ""
    /\ \E kind \in {"api", "stream", "mcp"}, h \in ProbePools, last \in BOOLEAN,
          st \in AllStatuses, body \in Bodies :
          LET s == AwaitingResponse(kind, h, last)
          IN /\ fn' = "respond"
             /\ input' = [s |-> s, status |-> st, body |-> body]
             /\ output' = Respond(s, st, body)
    /\ UNCHANGED call

PureInit == Init /\ total = 0

PureNext ==
    \/ IsLimitStep
    \/ RetryDelayStep
    \/ RespondStep

PureSpec == PureInit /\ [][PureNext]_vars

\* ------------------------------------------------ reading an attempt's trace
HasOp(tr, op) == \E i \in DOMAIN tr : tr[i].op = op

\* The value logged with the (single) operation op of the attempt, -1 if none.
OpVal(tr, op) == IF HasOp(tr, op) THEN (CHOOSE e \in {tr[i] : i \in DOMAIN tr} : e.op = op).val ELSE -1

OpId(tr, op) == IF HasOp(tr, op) THEN (CHOOSE e \in {tr[i] : i \in DOMAIN tr} : e.op = op).id ELSE -1

\* Index of the attempt the trace belongs to, its leased credential, the
\* status it received and whether the body it read bears the quota marker.
TraceAttempt(tr) == OpVal(tr, "acquire_context")

TraceId(tr) == OpId(tr, "acquire_context")

TraceStatus(tr) == OpVal(tr, "response")

TraceMarker(tr) == OpVal(tr, "read_body") = 1

\* The attempt the trace describes is over (the call is between attempts or
\* has returned).
AttemptEnded == pc \in {"acquire", "sleep", "done"} /\ trace # <<>>

\* The cap of the claims: min(N * 3, 9), N the pool size at call start.
Cap == Min(total * 3, 9)

\* Outcomes of an attempt, by what the upstream (or the token manager) did.
IsQuotaOutcome(tr) == TraceStatus(tr) = 402 /\ TraceMarker(tr)

IsAuthOutcome(tr) == TraceStatus(tr) \in {401, 403}

IsTransientStatus(st) == st \in {408, 429} \/ (st >= 500 /\ st <= 599)

IsUnknownStatus(st) == st >= 100 /\ ~(st >= 200 /\ st <= 299) /\ ~(st >= 400 /\ st <= 599)

\* 400, or a 4xx that is not 401, 403, 408, 429 or a marker-bearing 402
\* (decided once the body has been read).
IsTerminalOutcome(tr) ==
    /\ HasOp(tr, "read_body")
    /\ TraceStatus(tr) >= 400 /\ TraceStatus(tr) <= 499
    /\ TraceStatus(tr) \notin {401, 403, 408, 429}
    /\ ~IsQuotaOutcome(tr)

IsRetryableOutcome(tr) ==
    \/ HasOp(tr, "send_error")
    \/ HasOp(tr, "read_body") /\ IsTransientStatus(TraceStatus(tr))
    \/ HasOp(tr, "read_body") /\ IsUnknownStatus(TraceStatus(tr))

IsAcquireError(tr) == HasOp(tr, "acquire_context") /\ TraceId(tr) = 0

IsHeaderError(tr) == OpVal(tr, "build_headers") = 0

\* The call has returned and takes no further step.
Returned == pc = "done" => UNCHANGED vars

\* ------------------------------------------------------------------ C1
\* C1: the number of HTTP POSTs sent by a call never exceeds min(N * 3, 9),
\* N = total_count() at call start; the cap is fixed on entry and never
\* changes while the call runs.
C1_PostsWithinCap ==
    pc # "idle" => /\ posts <= Cap
                   /\ max_retries = Cap
                   /\ acquires <= max_retries

\* A call on a pool of 5 that has sent 9 POSTs.
C1_Witness == total = 5 /\ posts = 9 /\ pc = "done"

\* ------------------------------------------------------------------ C2
\* The outcomes that are not attributed to the credential.
UnattributedOutcome(tr) ==
    \/ IsAcquireError(tr)
    \/ IsHeaderError(tr)
    \/ HasOp(tr, "send_error")
    \/ HasOp(tr, "read_body") /\ IsTransientStatus(TraceStatus(tr))
    \/ IsTerminalOutcome(tr)

\* C2: report_failure is issued only in an attempt whose status is 401/403,
\* report_quota_exhausted only in an attempt whose status is 402 with the
\* marker; an attempt that ends in a network error, 408, 429, 5xx, 400,
\* another 4xx, a machine-id failure or an acquire error issues no report_*
\* operation and leaves every credential's health as it was.
C2_ReportsOnlyOnAuthOrQuota ==
    /\ [](/\ HasOp(trace, "report_failure") => IsAuthOutcome(trace)
          /\ HasOp(trace, "report_quota_exhausted") => IsQuotaOutcome(trace)
          /\ UnattributedOutcome(trace) => Count(trace, ReportOps) = 0)
    /\ [][/\ UnattributedOutcome(trace') /\ trace' # trace
             => health' = attempt_health /\ reports' = reports
          /\ reports'["report_failure"] # reports["report_failure"]
             => IsAuthOutcome(trace') /\ HasOp(trace', "report_failure")
          /\ reports'["report_quota_exhausted"] # reports["report_quota_exhausted"]
             => IsQuotaOutcome(trace') /\ HasOp(trace', "report_quota_exhausted")]_vars

\* A call that reported a failure, then met a 503 on a later attempt.
C2_Witness ==
    /\ reports["report_failure"] >= 1
    /\ TraceStatus(trace) = 503
    /\ pc = "sleep"

\* ------------------------------------------------------------------ C3
\* C3 (as stated): an attempt whose outcome is a transport error, 408, 429,
\* a 5xx, 400 or any 4xx other than 401 and 403 leaves the health of every
\* credential as it was before the attempt.
C3_Original ==
    [][(/\ trace' # trace
        /\ \/ HasOp(trace', "send_error")
           \/ /\ HasOp(trace', "read_body")
              /\ \/ IsTransientStatus(TraceStatus(trace'))
                 \/ /\ TraceStatus(trace') >= 400 /\ TraceStatus(trace') <= 499
                    /\ TraceStatus(trace') \notin {401, 403})
       => health' = attempt_health]_vars

\* C3 (amended): the same, for every 4xx other than 401, 403 and a 402 whose
\* body bears the monthly-quota marker.
C3_HealthUnchanged ==
    [][(/\ trace' # trace
        /\ \/ HasOp(trace', "send_error")
           \/ /\ HasOp(trace', "read_body")
              /\ \/ IsTransientStatus(TraceStatus(trace'))
                 \/ /\ TraceStatus(trace') >= 400 /\ TraceStatus(trace') <= 499
                    /\ TraceStatus(trace') \notin {401, 403}
                    /\ ~IsQuotaOutcome(trace'))
       => health' = attempt_health]_vars

\* A 402 without the marker ended a call whose pool still has a failing
\* credential from an earlier attempt.
C3_Witness ==
    /\ pc = "done"
    /\ TraceStatus(trace) = 402 /\ HasOp(trace, "read_body") /\ ~TraceMarker(trace)
    /\ \E i \in DOMAIN health : health[i] = 1

\* ------------------------------------------------------------------ C4
\* C4: when send() returns a 2xx response, the same step issues exactly one
\* report_success, for the credential leased in that attempt, and returns
\* that response: no body read, no sleep, no further attempt, and no other
\* report_* operation, then or later.
C4_SuccessReturnsAtOnce ==
    /\ [][(pc = "send" /\ HasOp(trace', "response") /\ TraceStatus(trace') >= 200
                       /\ TraceStatus(trace') <= 299)
          => /\ pc' = "done"
             /\ result' = Ok(TraceStatus(trace'))
             /\ trace' = trace \o <<[op |-> "response", id |-> ctx_id, val |-> TraceStatus(trace')],
                                    [op |-> "report_success", id |-> ctx_id, val |-> 1]>>
             /\ ctx_id = TraceId(trace)
             /\ reports' = [reports EXCEPT !["report_success"] = @ + 1]
             /\ health' = [health EXCEPT ![ctx_id] = 0]
             /\ attempt' = attempt /\ acquires' = acquires
             /\ posts' = posts /\ sleeps' = sleeps]_vars
    /\ [][Returned]_vars
    /\ [](reports["report_success"] >= 1 => pc = "done" /\ result.ok
                                             /\ reports["report_success"] = 1)

\* A 2xx answered on a later attempt, to a credential another attempt had
\* left failing: the report resets it.
C4_Witness ==
    /\ pc = "done" /\ result.ok /\ attempt >= 1
    /\ reports["report_failure"] >= 1
    /\ health[ctx_id] = 0

\* ------------------------------------------------------------------ C5
\* C5: an attempt classified as monthly-quota exhaustion (402 with marker)
\* issues exactly one report_quota_exhausted, an attempt classified as
\* 401/403 exactly one report_failure; the id passed is the id of the
\* CallContext acquired in that attempt, and the attempt issues no second
\* report_* operation.
C5_OneReportPerAttempt ==
    /\ (HasOp(trace, "read_body") /\ IsQuotaOutcome(trace))
       => /\ Count(trace, {"report_quota_exhausted"}) = 1
          /\ Count(trace, ReportOps) = 1
          /\ OpId(trace, "report_quota_exhausted") = TraceId(trace)
          /\ TraceId(trace) = ctx_id
    /\ (HasOp(trace, "read_body") /\ IsAuthOutcome(trace) /\ ~IsQuotaOutcome(trace))
       => /\ Count(trace, {"report_failure"}) = 1
          /\ Count(trace, ReportOps) = 1
          /\ OpId(trace, "report_failure") = TraceId(trace)
          /\ TraceId(trace) = ctx_id
    /\ Count(trace, ReportOps) <= 1
    /\ reports["report_failure"] + reports["report_quota_exhausted"]
          <= attempt + (IF pc = "done" THEN 1 ELSE 0)

\* A 403 on credential 2 after a quota exhaustion on credential 1.
C5_Witness ==
    /\ OpId(trace, "report_failure") = 2
    /\ health[1] = DisabledQuotaExhausted /\ health0[1] = 0
    /\ reports["report_quota_exhausted"] = 1

\* ------------------------------------------------------------------ C6
\* C6: a response with status 400, or with a 4xx status that is not 401,
\* 403, 408, 429 or a marker-bearing 402, ends the call in that attempt
\* with an error: no further acquire_context, POST, sleep or report_*
\* operation, whatever N is and however many attempts remain.
C6_TerminalClientError ==
    /\ [][(pc = "read_body" /\ IsTerminalOutcome(trace'))
          => /\ pc' = "done"
             /\ ~result'.ok /\ result'.err.kind = "status"
             /\ result'.err.status = TraceStatus(trace')
             /\ attempt' = attempt /\ acquires' = acquires
             /\ posts' = posts /\ sleeps' = sleeps
             /\ reports' = reports /\ health' = health
             /\ ~HasOp(trace', "sleep")]_vars
    /\ [][Returned]_vars
    /\ [](AttemptEnded /\ IsTerminalOutcome(trace) => pc = "done" /\ ~result.ok)

\* A 400 on the first attempt of a call that had 8 more, and no report.
C6_Witness ==
    /\ pc = "done" /\ TraceStatus(trace) = 400
    /\ attempt = 0 /\ max_retries = 9 /\ posts = 1 /\ acquires = 1
    /\ sleeps = 0 /\ reports = NoReports

\* ------------------------------------------------------------------ C7
\* C7: a backoff sleep retry_delay(k) follows attempt k exactly when attempt
\* k ended in a network error, a transient status (408, 429, 5xx) or an
\* unknown status and k is not the last permitted attempt (cap - 1); after
\* an AuthFailure or QuotaExhausted failover, an acquire_context error or a
\* header-build error the next attempt starts with no sleep; the sleep is
\* followed by attempt k + 1.
C7_BackoffOnlyOnRetryable ==
    /\ [](AttemptEnded =>
            /\ HasOp(trace, "sleep") <=> /\ IsRetryableOutcome(trace)
                                         /\ TraceAttempt(trace) + 1 < Cap
            /\ HasOp(trace, "sleep") => OpVal(trace, "sleep") = TraceAttempt(trace)
            /\ Count(trace, {"sleep"}) <= 1
            /\ pc = "sleep" <=> (HasOp(trace, "sleep") /\ attempt = TraceAttempt(trace)))
    /\ [][/\ sleeps' = sleeps + (IF HasOp(trace', "sleep") /\ ~HasOp(trace, "sleep") THEN 1 ELSE 0)
          /\ pc = "sleep" => pc' = "acquire" /\ attempt' = attempt + 1 /\ trace' = trace]_vars

\* Both sides: a sleep after a 429, in a call that earlier failed over from
\* a 401 without sleeping.
C7_Witness ==
    /\ pc = "sleep" /\ TraceStatus(trace) = 429
    /\ reports["report_failure"] = 1 /\ sleeps = 1 /\ attempt = 1

\* ------------------------------------------------------------------ C8
\* The attributing report of the attempt, if it issued one.
ReportedOp(tr) ==
    IF HasOp(tr, "report_failure") THEN "report_failure"
    ELSE IF HasOp(tr, "report_quota_exhausted") THEN "report_quota_exhausted"
    ELSE "none"

\* C8: when report_quota_exhausted(id) or report_failure(id) returns false
\* the call fails in that attempt with the all-credentials-exhausted error
\* and makes no further acquire_context call or POST; when it returns true
\* the call records the error and goes on to the next iteration (the next
\* attempt, or the end of the loop when none is left).
C8_ExhaustedFailsAtOnce ==
    /\ [](ReportedOp(trace) # "none" =>
            /\ OpVal(trace, ReportedOp(trace)) = 0 =>
                  /\ pc = "done"
                  /\ result = Err(Error("exhausted", api_type, TraceStatus(trace)))
                  /\ attempt = TraceAttempt(trace)
                  /\ acquires = attempt + 1
                  /\ Usable(health) = {}
            /\ OpVal(trace, ReportedOp(trace)) = 1 =>
                  /\ last_error = Error("status", api_type, TraceStatus(trace))
                  /\ attempt = TraceAttempt(trace) + 1
                  /\ Usable(health) # {}
                  /\ IF attempt < max_retries
                     THEN pc = "acquire" /\ acquires = attempt + 1
                     ELSE pc = "done" /\ result = Err(last_error) /\ acquires = attempt)
    /\ [][Returned]_vars

\* The last usable credential of a pool of 2 was exhausted on attempt 1,
\* with 4 attempts left.
C8_Witness ==
    /\ pc = "done" /\ total = 2 /\ attempt = 1 /\ max_retries = 6
    /\ OpVal(trace, "report_quota_exhausted") = 0
    /\ result.err.kind = "exhausted"

\* ------------------------------------------------------------------ C9
\* The credential and the return value of the report_failure or
\* report_quota_exhausted of the attempt the trace describes.
ReportedId(tr) == OpId(tr, ReportedOp(tr))

ReportedTrue(tr) == ReportedOp(tr) # "none" /\ OpVal(tr, ReportedOp(tr)) = 1

\* C9 (as stated): after an attempt that ended in AuthFailure or
\* QuotaExhausted and whose report returned true, the next attempt of the
\* call leases a credential id different from the one just reported.
C9_Original ==
    [][(pc = "acquire" /\ ReportedTrue(trace) /\ TraceId(trace') # 0)
       => TraceId(trace') # ReportedId(trace)]_vars

\* C9 (amended): after such an attempt the next attempt starts at once (no
\* sleep); it leases a different credential whenever the report disabled
\* the reported one, which report_quota_exhausted always does and
\* report_failure does only at the failure threshold; a credential that is
\* merely Failing may be leased again.
C9_FailoverAfterDisable ==
    /\ [][(pc = "acquire" /\ ReportedTrue(trace) /\ TraceId(trace') # 0)
          => /\ health[ReportedId(trace)] < 0 => TraceId(trace') # ReportedId(trace)
             /\ TraceId(trace') = ctx_id'
             /\ TraceAttempt(trace') = TraceAttempt(trace) + 1
             /\ ~HasOp(trace, "sleep")
             /\ sleeps' = sleeps]_vars
    /\ [](/\ HasOp(trace, "report_quota_exhausted")
             => health[ReportedId(trace)] = DisabledQuotaExhausted
          /\ ReportedTrue(trace) /\ pc # "done"
             => pc = "acquire" /\ ReportedId(trace) = TraceId(trace))

\* Second attempt of a call, on a credential other than the one the first
\* attempt reported and disabled, with no sleep in between.
C9_Witness ==
    /\ pc = "send" /\ attempt = 1 /\ sleeps = 0 /\ posts = 2
    /\ reports["report_quota_exhausted"] = 1
    /\ \E j \in DOMAIN health : j # ctx_id /\ health[j] < 0 /\ health0[j] = 0

\* ------------------------------------------------------------------ C10
\* C10: if every attempt of a call on a pool of N >= 1 ends in a transient
\* status (408, 429, 5xx), the call makes exactly min(N * 3, 9) POSTs and
\* min(N * 3, 9) - 1 backoff sleeps, issues no report_* operation, changes
\* no credential state and returns an error.
C10_AllTransient ==
    /\ (only_transient /\ pc # "idle")
       => reports = NoReports /\ health = health0
    /\ (only_transient /\ pc = "done" /\ total >= 1)
       => /\ posts = Cap /\ acquires = Cap
          /\ sleeps = Cap - 1
          /\ ~result.ok
          /\ result.err.kind = "status"
          /\ IsTransientStatus(result.err.status)

\* N = 5, every answer transient: 9 attempts and 8 sleeps.
C10_Witness ==
    /\ only_transient /\ pc = "done" /\ total = 5
    /\ posts = 9 /\ sleeps = 8

\* ------------------------------------------------------------------ C11
\* The inputs a suspended call may be resumed with: the lease (0: error) at
\* "acquire", the outcome of send() at "send", the body at "read_body".
StepInputs(s) ==
    CASE s.pc = "acquire" -> IF Usable(s.health) = {} THEN {0} ELSE Usable(s.health)
      [] s.pc = "send" -> {TransportError} \cup Statuses
      [] s.pc = "read_body" -> Bodies
      [] s.pc = "sleep" -> {0}
      [] OTHER -> {}

\* The code of call_api_with_retry / call_mcp_with_retry that runs when the
\* call suspended at s.pc is resumed with x.
ApiStep(s, x) ==
    CASE s.pc = "acquire" -> ApiAcquire(s, x, x # 0 /\ generate_from_credentials(x))
      [] s.pc = "send" -> ApiSend(s, x)
      [] s.pc = "read_body" -> ApiBody(s, x)
      [] s.pc = "sleep" -> ApiWake(s)

McpStep(s, x) ==
    CASE s.pc = "acquire" -> McpAcquire(s, x, x # 0 /\ generate_from_credentials(x))
      [] s.pc = "send" -> McpSend(s, x)
      [] s.pc = "read_body" -> McpBody(s, x)
      [] s.pc = "sleep" -> McpWake(s)

\* The same state of a call made through the entry point labelled `label`:
\* only the label differs, in api_type and in the messages built from it.
Relabel(s, label) ==
    [s EXCEPT !.api_type = IF @ = "" THEN @ ELSE label,
              !.last_error.label = IF @ = "" THEN @ ELSE label,
              !.result.err.label = IF @ = "" THEN @ ELSE label]

\* C11: call_api and call_api_stream are behaviourally identical.  From the
\* same token-manager state the two entries reach states that differ in the
\* label only, and whatever a call_api is resumed with, a call_api_stream
\* in the matching state and resumed with the same input performs the same
\* acquire_context, POST (same endpoint and header set), sleep and report_*
\* operations, and reaches the matching state again: same attempt, same
\* response or the same kind of error.
C11_ApiStreamIdentical ==
    /\ pc = "idle"
       => ApiEnter(St, TRUE, total_count) = Relabel(ApiEnter(St, FALSE, total_count), "stream")
    /\ api_type = "api"
       => \A x \in StepInputs(St) :
             ApiStep(Relabel(St, "stream"), x) = Relabel(ApiStep(St, x), "stream")
    /\ api_type \in {"api", "stream"}
       => \A i \in DOMAIN trace : trace[i].op = "post" => trace[i].val = PrimaryEndpoint

\* A call_api_stream that failed over once, slept once and ended in an error
\* carrying its label.
C11_Witness ==
    /\ api_type = "stream" /\ pc = "done" /\ ~result.ok
    /\ result.err.label = "stream"
    /\ sleeps >= 1 /\ reports["report_failure"] >= 1

\* ------------------------------------------------------------------ C12
\* The error an attempt records when it ends without returning, read off
\* the operations of the attempt.
RecordedError(tr, label) ==
    IF IsAcquireError(tr) THEN Error("acquire", "", 0)
    ELSE IF IsHeaderError(tr) THEN Error("machine_id", "", 0)
    ELSE IF HasOp(tr, "send_error") THEN Error("network", "", 0)
    ELSE IF HasOp(tr, "read_body") THEN Error("status", label, TraceStatus(tr))
    ELSE NoError

\* The call returned from the code after the loop.
LoopEnded == pc = "done" /\ attempt = max_retries

\* C12: when the loop ends without a success or a terminal failure, the
\* call returns the error recorded by the most recent attempt that recorded
\* one (between attempts last_error is always the error of the attempt
\* just ended, whatever was recorded before), and the synthesized
\* retries-exceeded error only when no attempt recorded an error.
C12_LastErrorWins ==
    /\ (pc \in {"acquire", "sleep"} /\ trace # <<>>)
       => /\ RecordedError(trace, api_type) # NoError
          /\ last_error = RecordedError(trace, api_type)
    /\ (LoopEnded /\ trace # <<>>)
       => /\ RecordedError(trace, api_type) # NoError
          /\ result = Err(RecordedError(trace, api_type))
    /\ (LoopEnded /\ trace = <<>>)
       => /\ result = Err(Error("max_retries", api_type, max_retries))
          /\ acquires = 0
    /\ (pc = "done" /\ ~result.ok /\ result.err.kind = "max_retries")
       => LoopEnded /\ trace = <<>>

\* A call whose last attempt met a transport error after an earlier attempt
\* had recorded the error of a 401/403: the transport error is returned.
C12_Witness ==
    /\ LoopEnded /\ result.err.kind = "network"
    /\ reports["report_failure"] >= 1

\* ------------------------------------------------------------------ C13
\* C13: a call cancelled at a suspension point of an attempt (acquire, send,
\* body read, backoff sleep) issues no report_* operation for that attempt,
\* at the cancellation or later, changes no credential's health, and takes
\* no further step.
C13_CancelReportsNothing ==
    /\ [][pc' = "cancelled" /\ pc # "cancelled"
          => /\ pc \in {"acquire", "send", "read_body", "sleep"}
             /\ reports' = reports /\ health' = health
             /\ posts' = posts /\ acquires' = acquires /\ sleeps' = sleeps
             /\ result' = result /\ attempt' = attempt]_vars
    /\ [][pc = "cancelled" => UNCHANGED vars]_vars
    /\ [](pc = "cancelled"
            => /\ TraceAttempt(trace) = attempt => Count(trace, ReportOps) = 0
               /\ result = NoResult)

\* A call cancelled while it read the body of a 401 on its first attempt:
\* no report_failure is ever issued for the credential.
C13_Witness ==
    /\ pc = "cancelled" /\ attempt = 0
    /\ TraceStatus(trace) = 401 /\ ~HasOp(trace, "read_body")
    /\ reports = NoReports /\ health = health0

\* ------------------------------------------------------------------ C14
\* What is left of a call: the iterations left, then the suspension points
\* left in the current one.
Variant ==
    IF pc \in {"idle", "done"} THEN 0
    ELSE (max_retries - attempt) * 4
         + (CASE pc = "acquire" -> 4 [] pc = "send" -> 3
              [] pc = "read_body" -> 2 [] pc = "sleep" -> 1)

\* C14: every call terminates.  If every acquire_context, send, body read
\* and sleep completes, a call that was made eventually returns a response
\* or an error, whatever N is and whatever the upstream answers; each step
\* of a running call brings it strictly closer to its return.
C14_Terminates ==
    /\ (pc # "idle") ~> (pc = "done" /\ result # NoResult)
    /\ [][pc \notin {"idle", "done"} => Variant' < Variant /\ Variant' >= 0]_vars

\* A call that used all 9 attempts, with failovers and sleeps on the way,
\* and returned.
C14_Witness ==
    /\ pc = "done" /\ max_retries = 9 /\ attempt = 9
    /\ posts >= 1 /\ sleeps >= 1 /\ reports["report_failure"] >= 1

\* ------------------------------------------------------------------ C15
Classes == {"Success", "QuotaExhausted", "BadRequest", "AuthFailure", "Transient",
            "OtherClient", "Unknown"}

\* The table of response classes, each row with the pairs (status, marker)
\* it covers once the rows of higher priority have taken theirs.
InClass(c, st, marker) ==
    CASE c = "Success" -> st \in 200..299
      [] c = "QuotaExhausted" -> st = 402 /\ marker
      [] c = "BadRequest" -> st = 400
      [] c = "AuthFailure" -> st \in {401, 403}
      [] c = "Transient" -> st \in {408, 429} \/ st \in 500..599
      [] c = "OtherClient" -> /\ st \in 400..499
                              /\ st \notin {400, 401, 403, 408, 429}
                              /\ ~(st = 402 /\ marker)
      [] c = "Unknown" -> st \notin 200..299 /\ st \notin 400..599

\* The call fails at once with the status error: terminal, not attributed.
HandledTerminal(s, t, st) ==
    /\ t.pc = "done" /\ t.result = Err(Error("status", s.api_type, st))
    /\ t.reports = s.reports /\ t.health = s.health
    /\ t.attempt = s.attempt /\ t.sleeps = s.sleeps /\ t.acquires = s.acquires

\* The error is recorded and the call backs off if an attempt remains:
\* not attributed.
HandledRetry(s, t, st) ==
    /\ t.reports = s.reports /\ t.health = s.health
    /\ t.last_error = Error("status", s.api_type, st)
    /\ IF s.attempt + 1 < s.max_retries
       THEN t.pc = "sleep" /\ t.sleeps = s.sleeps + 1 /\ t.attempt = s.attempt
       ELSE /\ t.pc = "done" /\ t.sleeps = s.sleeps /\ t.attempt = s.max_retries
            /\ t.result = Err(t.last_error)

\* The credential is reported with `op`, which leaves it with health h; the
\* call fails if no credential is left and fails over at once otherwise.
HandledFailover(s, t, st, op, h) ==
    /\ t.reports = [s.reports EXCEPT ![op] = @ + 1]
    /\ t.health = h /\ t.sleeps = s.sleeps
    /\ IF Usable(h) = {}
       THEN /\ t.pc = "done" /\ t.attempt = s.attempt
            /\ t.result = Err(Error("exhausted", s.api_type, st))
       ELSE /\ t.last_error = Error("status", s.api_type, st)
            /\ t.attempt = s.attempt + 1
            /\ IF t.attempt < s.max_retries
               THEN t.pc = "acquire" /\ t.acquires = s.acquires + 1
               ELSE t.pc = "done" /\ t.result = Err(t.last_error)

Handled(c, s, t, st) ==
    CASE c = "Success" -> /\ t.pc = "done" /\ t.result = Ok(st)
                          /\ t.reports = [s.reports EXCEPT !["report_success"] = @ + 1]
                          /\ t.health = [s.health EXCEPT ![s.ctx_id] = 0]
                          /\ t.attempt = s.attempt /\ t.sleeps = s.sleeps
                          /\ ~HasOp(t.trace, "read_body")
      [] c = "QuotaExhausted" ->
            HandledFailover(s, t, st, "report_quota_exhausted",
                            [s.health EXCEPT ![s.ctx_id] = DisabledQuotaExhausted])
      [] c = "BadRequest" -> HandledTerminal(s, t, st)
      [] c = "AuthFailure" ->
            HandledFailover(s, t, st, "report_failure", report_failure(s.health, s.ctx_id))
      [] c = "Transient" -> HandledRetry(s, t, st)
      [] c = "OtherClient" -> HandledTerminal(s, t, st)
      [] c = "Unknown" -> HandledRetry(s, t, st)

\* C15: the handling of a response is a total function of (status, marker):
\* every pair lies in exactly one class of the table (2xx; 402 with marker;
\* 400; 401/403; 408, 429 and 5xx; the remaining 4xx including 402 without
\* the marker; every remaining status), and the call handles the response
\* as its class prescribes, Unknown exactly as Transient.
C15_ClassifiedOnce ==
    fn = "respond"
    => LET st == input.status
           marker == is_monthly_request_limit(input.body)
       IN /\ Cardinality({c \in Classes : InClass(c, st, marker)}) = 1
          /\ \A c \in Classes : InClass(c, st, marker) => Handled(c, input.s, output, st)

\* A 402 without the marker, in a pool of two: terminal, nobody is reported.
C15_Witness ==
    /\ fn = "respond" /\ input.status = 402
    /\ ~is_monthly_request_limit(input.body)
    /\ Len(input.s.health) = 2
    /\ output.pc = "done" /\ output.health = <<0, 0>>

\* ------------------------------------------------------------------ C16
\* The string tokens that denote MONTHLY_REQUEST_COUNT.
IsMarkerString(tok) ==
    tok \in {"\"MONTHLY_REQUEST_COUNT\"", "\"MONTHLY_REQUEST\\u005fCOUNT\""}

\* The body is the JSON text {"reason": "MONTHLY_REQUEST_COUNT"}.  (The
\* bodies explored have no comma: their objects have at most one member.)
IsReasonObject(b) ==
    /\ Len(b) = 5
    /\ b[1] = "{" /\ b[2] = "\"reason\"" /\ b[3] = ":" /\ IsMarkerString(b[4]) /\ b[5] = "}"

\* The body is the JSON text {"error": {"reason": "MONTHLY_REQUEST_COUNT"}}.
IsNestedReasonObject(b) ==
    /\ Len(b) = 9
    /\ b[1] = "{" /\ b[2] = "\"error\"" /\ b[3] = ":" /\ b[9] = "}"
    /\ IsReasonObject(SubSeq(b, 4, 8))

\* The text MONTHLY_REQUEST_COUNT occurs in the body as written.
HasLiteralMarker(b) ==
    \E i \in DOMAIN b : b[i] \in {"MONTHLY_REQUEST_COUNT", "\"MONTHLY_REQUEST_COUNT\""}

\* C16: is_monthly_request_limit(body) is true exactly when the body
\* contains the literal MONTHLY_REQUEST_COUNT, or is JSON whose top-level
\* field reason is that string, or is JSON whose field error.reason is that
\* string; it is false for the empty body, for a body that is not JSON and
\* lacks the literal, and for JSON whose reason is DAILY_REQUEST_COUNT.
C16_MarkerDetected ==
    fn = "is_monthly_request_limit"
    => /\ output = (\/ HasLiteralMarker(input)
                    \/ IsReasonObject(input)
                    \/ IsNestedReasonObject(input))
       /\ input = <<>> => output = FALSE
       /\ input = <<"limit reached">> => output = FALSE
       /\ input = <<"{", "\"reason\"", ":", "\"DAILY_REQUEST_COUNT\"", "}">> => output = FALSE
       /\ input = Nested(<<"{", "\"reason\"", ":", "\"DAILY_REQUEST_COUNT\"", "}">>)
          => output = FALSE

\* The nested field carries the marker spelled with an escape, so that only
\* the JSON reading finds it.
C16_Witness ==
    /\ fn = "is_monthly_request_limit" /\ output = TRUE
    /\ IsNestedReasonObject(input) /\ ~HasLiteralMarker(input)

\* ------------------------------------------------------------------ C17
\* d of the claim: min(200 * 2^min(a, 6), 2000), that is 200, 400, 800,
\* 1600 and then 2000.
DelayBase(a) ==
    CASE a = 0 -> 200 [] a = 1 -> 400 [] a = 2 -> 800 [] a = 3 -> 1600 [] OTHER -> 2000

\* C17: for every attempt index a >= 0, retry_delay(a) lies in
\* [d, d + max(d / 4, 1)] with d = min(200 * 2^min(a, 6), 2000), hence in
\* [200 ms, 2500 ms]; d is non-decreasing in a; and no intermediate value
\* saturates (each equals the exact arithmetic result, far below 2^64).
C17_DelayBounded ==
    fn = "retry_delay"
    => /\ DelayBase(input) = Min(200 * 2^Min(input, 6), 2000)
       /\ output.backoff = DelayBase(input)
       /\ output.jitter_max = Max(DelayBase(input) \div 4, 1)
       /\ output.jitter >= 0 /\ output.jitter <= output.jitter_max
       /\ output.millis >= DelayBase(input)
       /\ output.millis <= DelayBase(input) + Max(DelayBase(input) \div 4, 1)
       /\ output.millis >= 200 /\ output.millis <= 2500
       /\ backoff(input) <= backoff(input + 1)
       /\ output.exp = 200 * 2^Min(input, 6) /\ output.exp < IntMax
       /\ output.millis = output.backoff + output.jitter /\ output.millis < IntMax

\* The longest delay, at an attempt index beyond the clamp of the exponent.
C17_Witness ==
    /\ fn = "retry_delay" /\ input > 6
    /\ output.exp = 12800 /\ output.millis = 2500

\* ------------------------------------------------------------------ C18
\* The credential every POST of the call is made with, when the state tells:
\* the only credential that was not disabled when the call started (0 when
\* there are several, or none).
SoleCredential ==
    IF Cardinality(Usable(health0)) = 1 THEN CHOOSE i \in Usable(health0) : TRUE ELSE 0

\* C18 (as stated): within one call no credential id is used for more than
\* MAX_RETRIES_PER_CREDENTIAL (3) HTTP attempts.  Stated for the calls in
\* which one credential receives every POST, where the number of attempts
\* made with it is the number of POSTs of the call.
C18_Original ==
    SoleCredential # 0 => posts <= MAX_RETRIES_PER_CREDENTIAL

AsMcp(s) ==
    LET r == Relabel(s, "mcp")
    IN [r EXCEPT !.trace = [i \in DOMAIN r.trace |->
                              IF r.trace[i].op = "post"
                              THEN [r.trace[i] EXCEPT !.val = McpEndpoint]
                              ELSE r.trace[i]]]

\* C20: call_mcp follows the control flow of call_api.  From the same
\* token-manager state the two entries reach matching states, and whatever
\* a call_api is resumed with (lease, status, body), a call_mcp in the
\* matching state and resumed with the same input performs the same
\* acquire_context, POST, sleep and report_* operations with the same ids
\* and reaches the matching state again: same attempt, same kind of result.
\* Only the endpoint and header set of the POST differ.
C20_McpSameControlFlow ==
    /\ pc = "idle" => McpEnter(St, total_count) = AsMcp(ApiEnter(St, FALSE, total_count))
    /\ api_type = "api"
       => \A x \in StepInputs(St) : McpStep(AsMcp(St), x) = AsMcp(ApiStep(St, x))
    /\ api_type = "mcp"
       => \A i \in DOMAIN trace : trace[i].op = "post" => trace[i].val = McpEndpoint

\* A call_mcp that slept, failed over and ended with every credential
\* exhausted.
C20_Witness ==
    /\ api_type = "mcp" /\ pc = "done" /\ result.err.kind = "exhausted"
    /\ attempt >= 2 /\ sleeps >= 1 /\ reports["report_failure"] >= 1
    /\ OpId(trace, "post") = 2

\* ------------------------------------------------------------------ C21
\* C21: an attempt in which acquire_context fails, or in which header
\* building fails for want of a machine id, sends no request, issues no
\* report_* operation, does not sleep, records its error as last_error and
\* counts against the cap: the call goes straight to the next iteration.
\* A call on a pool of N >= 1 in which every acquire fails makes exactly
\* cap acquire_context calls, no POST and no sleep, and returns the
\* acquire error.
C21_AcquireOrHeaderError ==
    /\ [][(trace' # trace /\ (IsAcquireError(trace') \/ IsHeaderError(trace')))
          => /\ pc = "acquire"
             /\ posts' = posts /\ sleeps' = sleeps
             /\ reports' = reports /\ health' = health
             /\ ~HasOp(trace', "post") /\ ~HasOp(trace', "sleep")
             /\ Count(trace', ReportOps) = 0
             /\ attempt' = attempt + 1
             /\ RecordedError(trace', api_type).kind \in {"acquire", "machine_id"}
             /\ IF attempt' < max_retries
                THEN /\ pc' = "acquire" /\ acquires' = acquires + 1
                     /\ last_error' = RecordedError(trace', api_type)
                ELSE /\ pc' = "done" /\ acquires' = acquires
                     /\ result' = Err(RecordedError(trace', api_type))]_vars
    /\ []((pc = "done" /\ total >= 1 /\ Usable(health0) = {})
            => /\ acquires = Cap /\ posts = 0 /\ sleeps = 0
               /\ reports = NoReports /\ health = health0
               /\ result = Err(Error("acquire", "", 0)))

\* A pool of 5 with every credential disabled: 9 failed acquires, nothing
\* sent, no sleep, and the acquire error returned.
C21_Witness ==
    /\ pc = "done" /\ total = 5 /\ Usable(health0) = {}
    /\ acquires = 9 /\ posts = 0 /\ sleeps = 0
    /\ result.err.kind = "acquire"

\* ------------------------------------------------------------------ C22
\* C22: the synthesized retries-exceeded error is returned if and only if
\* total_count() was 0 when the call started.  With N = 0 the call makes no
\* acquire_context call, no POST, no sleep and no report_* operation and
\* returns the synthesized error; with N >= 1 every attempt that does not
\* end the call records an error, so a call that uses up its attempts
\* returns a recorded error.
C22_SynthesizedIffEmptyPool ==
    /\ pc = "done"
       => ((~result.ok /\ result.err.kind = "max_retries") <=> total = 0)
    /\ (pc = "done" /\ total = 0)
       => /\ result = Err(Error("max_retries", api_type, 0))
          /\ acquires = 0 /\ posts = 0 /\ sleeps = 0
          /\ reports = NoReports /\ trace = <<>>
    /\ (total >= 1 /\ pc \notin {"idle", "done"})
       => (last_error = NoError <=> attempt = 0 /\ pc # "sleep")
    /\ (total >= 1 /\ LoopEnded)
       => /\ last_error # NoError /\ result = Err(last_error)
          /\ result.err.kind \in {"acquire", "machine_id", "network", "status"}

\* A call_mcp on an empty pool: it returns the synthesized error at once.
C22_Witness ==
    /\ total = 0 /\ pc = "done" /\ api_type = "mcp"
    /\ result = Err(Error("max_retries", "mcp", 0))
    /\ acquires = 0

====
